---------------------------- MODULE Spec2Model ----------------------------
(***************************************************************************)
(* Daily Spend Tracker (streamlit_app.py): the read-merge-filter-select-   *)
(* total cycle of one script run, the cached fetch shared by the sessions, *)
(* the manual refresh and the add-row form.                                *)
(*                                                                         *)
(* Text cells are sequences of one-character strings, so that lower-casing *)
(* and number parsing are computed character by character.  A cell is a    *)
(* record [null, s]: null is pandas' NaN/None, s the text.                 *)
(***************************************************************************)
EXTENDS Integers, Sequences, FiniteSets, TLC

\* ------------------------------------------------------------------ bounds
MaxDay == 2          \* calendar days are 1..MaxDay
TicksPerDay == 2     \* times of day are 0..TicksPerDay-1
MaxHist == 1         \* rows of the history range
MaxApp == 1          \* rows of the append range at start
MaxAppendCalls == 1  \* append calls issued in one behaviour
MaxReload == 2       \* largest reload counter explored
MaxTicks == 2        \* clock ticks, of half a time-to-live each
MaxAmount == 5       \* largest amount typed into the form

\* ------------------------------------------------------- program constants
TTL == 300

Days == 1..MaxDay
Tods == 0..(TicksPerDay - 1)
Sessions == {1, 2}

\* ------------------------------------------------------------------- cells
NaN == [null |-> TRUE, s |-> <<>>]
Txt(s) == [null |-> FALSE, s |-> s]
\* a bank cell holds its text whole: the code only compares banks
NoBank == [null |-> TRUE, s |-> ""]

\* Timestamp text: "YYYY-MM-DD HH:MM:SS" (datetime), "YYYY-MM-DD" (date),
\* anything else (junk), or no value (null).
NoTs == [kind |-> "null", day |-> 0, tod |-> 0]
JunkTs == [kind |-> "junk", day |-> 0, tod |-> 0]
DateTimeText(d, t) == [kind |-> "datetime", day |-> d, tod |-> t]
DateText(d) == [kind |-> "date", day |-> d, tod |-> 0]

NaT == -1

ToLower ==
    ("A" :> "a") @@ ("C" :> "c") @@ ("D" :> "d") @@ ("E" :> "e") @@
    ("I" :> "i") @@ ("N" :> "n") @@ ("R" :> "r") @@ ("S" :> "s") @@
    ("T" :> "t") @@ ("U" :> "u") @@ ("Y" :> "y") @@ ("B" :> "b") @@
    ("F" :> "f") @@ ("L" :> "l")

LowerChar(c) == IF c \in DOMAIN ToLower THEN ToLower[c] ELSE c

\* Series.str.lower()
StrLower(s) == [i \in DOMAIN s |-> LowerChar(s[i])]

\* Series.astype(str): a missing value becomes the text "nan"
AsTypeStr(c) == IF c.null THEN <<"n", "a", "n">> ELSE c.s

DigitVal ==
    ("0" :> 0) @@ ("1" :> 1) @@ ("2" :> 2) @@ ("3" :> 3) @@ ("4" :> 4) @@
    ("5" :> 5) @@ ("6" :> 6) @@ ("7" :> 7) @@ ("8" :> 8) @@ ("9" :> 9)

IsDigits(s) == Len(s) > 0 /\ \A i \in DOMAIN s : s[i] \in DOMAIN DigitVal

RECURSIVE DigitsValue(_)
DigitsValue(s) ==
    IF s = <<>> THEN 0
    ELSE DigitsValue(SubSeq(s, 1, Len(s) - 1)) * 10 + DigitVal[s[Len(s)]]

\* pd.to_numeric(cell, errors="coerce").fillna(0.0)
ToNumericFill(c) ==
    IF c.null THEN 0
    ELSE IF IsDigits(c.s) THEN DigitsValue(c.s)
    ELSE IF Len(c.s) > 1 /\ c.s[1] = "-" /\ IsDigits(Tail(c.s))
         THEN 0 - DigitsValue(Tail(c.s))
    ELSE 0

\* pd.to_datetime(cell, errors="coerce"): an instant, in ticks, or NaT
ToDatetime(c) ==
    IF c.kind = "datetime" THEN c.day * TicksPerDay + c.tod
    ELSE IF c.kind = "date" THEN c.day * TicksPerDay
    ELSE NaT

\* Series.dt.date of an instant that is not NaT
DtDate(ts) == ts \div TicksPerDay

\* ------------------------------------------------------------------ frames
EmptyFrame == [cols |-> {}, rows |-> <<>>]

\* DataFrame.empty
IsEmpty(df) == df.rows = <<>> \/ df.cols = {}

DeletedLiterals ==
    { <<"t", "r", "u", "e">>, <<"t">>, <<"1">>, <<"y", "e", "s">> }

\* the mask without .str.lower()
DeletedMaskCaseSensitive(r) == AsTypeStr(r.is_deleted) \in DeletedLiterals

\* df_raw["is_deleted"].astype(str).str.lower().isin([...])
DeletedMask(r) == StrLower(AsTypeStr(r.is_deleted)) \in DeletedLiterals

\* _read_sheet_with_index: the tagged frame, or an empty frame on failure
ReadSheetWithIndex(sheet, source_name, fails) ==
    IF fails THEN EmptyFrame
    ELSE [cols |-> sheet.cols
                   \cup (IF sheet.rows # <<>> THEN {"_sheet_row_idx"} ELSE {})
                   \cup {"_source_sheet"},
          rows |-> [i \in DOMAIN sheet.rows |->
                      sheet.rows[i] @@ [_sheet_row_idx |-> i - 1,
                                        _source_sheet |-> source_name]]]

\* pd.concat([history_df, append_df], ignore_index=True, sort=False)
Concat(h, a) == [cols |-> h.cols \cup a.cols, rows |-> h.rows \o a.rows]

\* the delete filter
FilterDeleted(df) ==
    IF "is_deleted" \in df.cols
    THEN [df EXCEPT !.rows = SelectSeq(df.rows, LAMBDA r : ~DeletedMask(r))]
    ELSE df


\* ------------------------------------------------- transform (transform.py)
UnknownBank == Txt("Unknown")
BlankBank == Txt("")

\* transform.convert_columns_and_derives: a missing or blank bank of an
\* existing Bank column becomes "Unknown"; the other cells are kept
ConvertColumnsAndDerives(df) ==
    [df EXCEPT !.rows =
        [i \in DOMAIN df.rows |->
            IF "Bank" \in df.cols
               /\ (df.rows[i].Bank.null \/ df.rows[i].Bank = BlankBank)
            THEN [df.rows[i] EXCEPT !.Bank = UnknownBank]
            ELSE df.rows[i]]]

\* if "Bank" not in converted_df.columns: converted_df["Bank"] = "Unknown"
WithBankColumn(df) ==
    IF "Bank" \in df.cols THEN df
    ELSE [cols |-> df.cols \cup {"Bank"},
          rows |-> [i \in DOMAIN df.rows |->
                      [df.rows[i] EXCEPT !.Bank = UnknownBank]]]

\* sorted(converted_df["Bank"].dropna().unique().tolist()), as a set
BanksOf(df) ==
    {df.rows[i].Bank.s : i \in {j \in DOMAIN df.rows : ~df.rows[j].Bank.null}}

\* converted_df[converted_df["Bank"].isin(sel_banks)]
FilterBanks(df, sel_banks) ==
    [df EXCEPT !.rows =
        SelectSeq(df.rows, LAMBDA r : ~r.Bank.null /\ r.Bank.s \in sel_banks)]

\* the parsed timestamp column: from "timestamp", else from "date"
RowTimestamp(df, r) ==
    IF "timestamp" \in df.cols THEN ToDatetime(r.timestamp)
    ELSE IF "date" \in df.cols THEN ToDatetime(r.date)
    ELSE NaT

\* filtered_df["timestamp"].dropna(), as the set of instants
ValidDates(df) ==
    {RowTimestamp(df, df.rows[i]) : i \in DOMAIN df.rows} \ {NaT}

SetMin(S) == CHOOSE x \in S : \A y \in S : x <= y
SetMax(S) == CHOOSE x \in S : \A y \in S : x >= y

\* the mask taken on the instant instead of on its calendar day
DateMaskInstant(df, r, start_sel, end_sel) ==
    LET ts == RowTimestamp(df, r)
    IN  ts # NaT /\ start_sel * TicksPerDay <= ts /\ ts <= end_sel * TicksPerDay

\* tmp["timestamp"].dt.date.between(start_sel, end_sel): NaT compares False
DateMask(df, r, start_sel, end_sel) ==
    LET ts == RowTimestamp(df, r)
    IN  ts # NaT /\ start_sel <= DtDate(ts) /\ DtDate(ts) <= end_sel

SelectRows(df, start_sel, end_sel) ==
    [df EXCEPT !.rows =
        SelectSeq(df.rows, LAMBDA r : DateMask(df, r, start_sel, end_sel))]

CreditText == <<"c", "r", "e", "d", "i", "t">>
DebitText == <<"d", "e", "b", "i", "t">>

\* the type without .str.lower()
TypeNormCaseSensitive(r) == AsTypeStr(r.Type)

\* sel_df[type_col].astype(str).str.lower()
TypeNorm(r) == StrLower(AsTypeStr(r.Type))

\* sel_df["amt"]
Amt(r) == ToNumericFill(r.Amount)

RECURSIVE SumAmt(_, _)
SumAmt(rows, text) ==
    IF rows = <<>> THEN 0
    ELSE (IF TypeNorm(Head(rows)) = text THEN Amt(Head(rows)) ELSE 0)
         + SumAmt(Tail(rows), text)

CountType(rows, text) ==
    Cardinality({i \in DOMAIN rows : TypeNorm(rows[i]) = text})

ZeroSummary ==
    [credit_sum |-> 0, debit_sum |-> 0, credit_count |-> 0,
     debit_count |-> 0, net |-> 0]

\* the Totals block: sums and counts over the selected rows
Totals(sel_df) ==
    IF "Amount" \in sel_df.cols /\ "Type" \in sel_df.cols
    THEN [credit_sum |-> SumAmt(sel_df.rows, CreditText),
          debit_sum |-> SumAmt(sel_df.rows, DebitText),
          credit_count |-> CountType(sel_df.rows, CreditText),
          debit_count |-> CountType(sel_df.rows, DebitText),
          net |-> SumAmt(sel_df.rows, CreditText)
                  - SumAmt(sel_df.rows, DebitText)]
    ELSE ZeroSummary

\* ------------------------------------------ daily aggregator (transform.py)
ZeroDay == [Total_Spent |-> 0, Total_Credit |-> 0]

\* a day's totals replaced by the row's amount instead of raised by it
AddToDayOverwrite(df, acc, r) ==
    LET ts == RowTimestamp(df, r)
        d == DtDate(ts)
        a == Amt(r)
        new == [Total_Spent |-> IF TypeNorm(r) = DebitText THEN a ELSE 0,
                Total_Credit |-> IF TypeNorm(r) = CreditText THEN a ELSE 0]
    IN  IF ts = NaT THEN acc ELSE (d :> new) @@ acc

AddToDay(df, acc, r) ==
    LET ts == RowTimestamp(df, r)
        d == DtDate(ts)
        old == IF d \in DOMAIN acc THEN acc[d] ELSE ZeroDay
        a == Amt(r)
        new == [Total_Spent |-> old.Total_Spent
                                 + (IF TypeNorm(r) = DebitText THEN a ELSE 0),
                Total_Credit |-> old.Total_Credit
                                 + (IF TypeNorm(r) = CreditText THEN a ELSE 0)]
    IN  IF ts = NaT THEN acc ELSE (d :> new) @@ acc

RECURSIVE FoldDays(_, _, _)
FoldDays(df, acc, rows) ==
    IF rows = <<>> THEN acc
    ELSE FoldDays(df, AddToDay(df, acc, Head(rows)), Tail(rows))

\* transform.compute_daily_totals: per calendar day, the debit and the
\* credit totals; rows without a date are left out
ComputeDailyTotals(df) == FoldDays(df, <<>>, df.rows)

\* ------------------------------------------------------- one script run
\* st.date_input: a single date, a (start, end) pair, or a range picker
\* with only its first date chosen (a 1-tuple)
SingleDate(d) == [mode |-> "single", a |-> d, b |-> d]
DateRange(a, b) == [mode |-> "range", a |-> a, b |-> b]
PartialRange(a) == [mode |-> "partial", a |-> a, b |-> a]

BlankView ==
    [stage |-> "none", hit |-> FALSE, stored_at |-> 0,
     history_df |-> EmptyFrame, append_df |-> EmptyFrame,
     df_raw |-> EmptyFrame, banks |-> {}, sel_banks |-> {},
     filtered_df |-> EmptyFrame, merged |-> <<>>,
     date_input |-> SingleDate(1), start_sel |-> 0, end_sel |-> 0,
     sel_df |-> EmptyFrame, summary |-> ZeroSummary]

\* the stop taken when either source is empty
NoDataEither(history_df, append_df) ==
    IsEmpty(history_df) \/ IsEmpty(append_df)

\* if history_df.empty and append_df.empty
NoData(history_df, append_df) == IsEmpty(history_df) /\ IsEmpty(append_df)

\* lines 96-138: from the fetched frames to the date widgets
PipelineToDates(v, sel_banks) ==
    LET concat == Concat(v.history_df, v.append_df)
        df_raw == FilterDeleted(concat)
        converted_df == WithBankColumn(ConvertColumnsAndDerives(df_raw))
        banks == BanksOf(converted_df)
        filtered_df == FilterBanks(converted_df, sel_banks \cap banks)
    IN  IF NoData(v.history_df, v.append_df)
        THEN [v EXCEPT !.stage = "no_data"]
        ELSE IF IsEmpty(df_raw)
        THEN [v EXCEPT !.stage = "no_visible", !.df_raw = df_raw]
        ELSE IF ValidDates(filtered_df) = {}
        THEN [v EXCEPT !.stage = "no_dates", !.df_raw = df_raw,
                       !.banks = banks, !.sel_banks = sel_banks \cap banks,
                       !.filtered_df = filtered_df,
                       !.merged = ComputeDailyTotals(filtered_df)]
        ELSE [v EXCEPT !.stage = "dates", !.df_raw = df_raw,
                       !.banks = banks, !.sel_banks = sel_banks \cap banks,
                       !.filtered_df = filtered_df,
                       !.merged = ComputeDailyTotals(filtered_df)]

MinDate(v) == DtDate(SetMin(ValidDates(v.filtered_df)))
MaxDate(v) == DtDate(SetMax(ValidDates(v.filtered_df)))

\* min_value / max_value of the date widgets
DateInputAllowed(v, dr) ==
    /\ MinDate(v) <= dr.a /\ dr.a <= MaxDate(v)
    /\ MinDate(v) <= dr.b /\ dr.b <= MaxDate(v)

\* lines 143-178: the date selection and the totals
PipelineFromDates(v, dr) ==
    IF v.stage # "dates" THEN v
    ELSE IF dr.mode = "partial"
    THEN [v EXCEPT !.stage = "error", !.date_input = dr]
    ELSE LET sel_df == SelectRows(v.filtered_df, dr.a, dr.b)
         IN  [v EXCEPT !.stage = "rendered", !.date_input = dr,
                       !.start_sel = dr.a,
                       !.end_sel = dr.b, !.sel_df = sel_df,
                       !.summary = Totals(sel_df)]


\* ------------------------------------------------------------------- state
VARIABLES
    secrets_ok,     \* SHEET_ID, RANGE and APPEND_RANGE are all set
    io_mod,         \* io_helpers was imported
    gcp_ok,         \* gcp_service_account is set and parses
    hist_sheet,     \* the history range, at the transport
    app_sheet,      \* the append range, at the transport
    cache,          \* st.cache_data of fetch_sheets, by reload_key
    now,            \* the clock, in ticks of TTL \div 2 seconds
    reload_key,     \* st.session_state.reload_key of each session
    pc,             \* each session: "idle", "refreshed" or "appended"
    refreshed_at,   \* the time of each session's last manual refresh
    view,           \* what each session's last script run computed
    append_calls,   \* append calls each session issued to the transport
    notice,         \* the add-row form's last message, per session
    appended        \* the rows the transport accepted, in order

vars ==
    <<secrets_ok, io_mod, gcp_ok, hist_sheet, app_sheet, cache, now,
      reload_key, pc, refreshed_at, view, append_calls, notice, appended>>

FullCols == {"timestamp", "date", "Bank", "Type", "Amount", "is_deleted"}

Row(ts, d, bank, type, amount, del) ==
    [timestamp |-> ts, date |-> d, Bank |-> bank, Type |-> type,
     Amount |-> amount, is_deleted |-> del]

\* _get_creds_info() is not None
CredsInfo == io_mod /\ gcp_ok

NoEntry == [present |-> FALSE, at |-> 0,
            history_df |-> EmptyFrame, append_df |-> EmptyFrame]

\* ttl=300: an entry is served while it is younger than the time-to-live
Fresh(e) == e.present /\ (now - e.at) * (TTL \div 2) < TTL

\* the cache key of a session's fetch: the other arguments are the same
\* for every session of the deployment
CacheKey(s) == reload_key[s]

\* fetch_sheets behind st.cache_data
FetchSheets(s, fh, fa) ==
    LET e == cache[CacheKey(s)]
    IN  IF Fresh(e)
        THEN [hit |-> TRUE, stored_at |-> e.at,
              history_df |-> e.history_df, append_df |-> e.append_df]
        ELSE [hit |-> FALSE, stored_at |-> now,
              history_df |-> ReadSheetWithIndex(hist_sheet, "history", fh),
              append_df |-> ReadSheetWithIndex(app_sheet, "append", fa)]

CacheAfter(s, f) ==
    IF f.hit THEN cache
    ELSE [cache EXCEPT ![CacheKey(s)] =
             [present |-> TRUE, at |-> f.stored_at,
              history_df |-> f.history_df, append_df |-> f.append_df]]

\* one run of the script, up to the add-row form
ScriptView(s, fh, fa, sel_banks, dr) ==
    IF ~secrets_ok THEN [BlankView EXCEPT !.stage = "no_secrets"]
    ELSE IF ~CredsInfo THEN [BlankView EXCEPT !.stage = "no_creds"]
    ELSE LET f == FetchSheets(s, fh, fa)
             v == [BlankView EXCEPT !.hit = f.hit, !.stored_at = f.stored_at,
                                    !.history_df = f.history_df,
                                    !.append_df = f.append_df]
         IN  PipelineFromDates(PipelineToDates(v, sel_banks), dr)

ScriptCache(s, fh, fa) ==
    IF secrets_ok /\ CredsInfo THEN CacheAfter(s, FetchSheets(s, fh, fa))
    ELSE cache

\* ------------------------------------------------------------ add-row form
FalseText == <<"f", "a", "l", "s", "e">>

DigitChar == <<"0", "1", "2", "3", "4", "5", "6", "7", "8", "9">>

RECURSIVE FormatNumber(_)
FormatNumber(n) ==
    IF n < 10 THEN <<DigitChar[n + 1]>>
    ELSE FormatNumber(n \div 10) \o <<DigitChar[(n % 10) + 1]>>

\* the row with its timestamp in a format that does not parse as a date
NewRowUnreadableDate(form) ==
    [timestamp |-> JunkTs, date |-> DateText(form.date),
     Bank |-> form.bank, Type |-> form.txn_type, Amount |-> form.amount,
     is_deleted |-> FalseText]

\* new_row: the date combined with the time of day and written as
\* "%Y-%m-%d %H:%M:%S", the ISO date, and is_deleted "false"
NewRow(form) ==
    [timestamp |-> DateTimeText(form.date, form.tod),
     date |-> DateText(form.date),
     Bank |-> form.bank, Type |-> form.txn_type, Amount |-> form.amount,
     is_deleted |-> FalseText]

\* io_helpers.append_new_row, when the transport accepts the row: the
\* row's values are written as text at the end of the append range
AppendNewRow(sheet, new_row) ==
    [cols |-> sheet.cols \cup FullCols,
     rows |-> Append(sheet.rows,
                Row(new_row.timestamp, new_row.date, Txt(new_row.Bank),
                    Txt(new_row.Type), Txt(FormatNumber(new_row.Amount)),
                    Txt(new_row.is_deleted)))]

\* the form handled by a run that was stopped before it
FormReachedAnyway(v) == io_mod

\* the form is reached only by a run that was not stopped before it
FormReached(v) == v.stage = "rendered" /\ io_mod

\* the counter moved whatever the status
ReloadAfterAnyAppend(k, res) == k + 1

\* if res.get("status") == "ok": st.session_state.reload_key += 1
ReloadAfterAppend(k, res) == IF res = "ok" THEN k + 1 ELSE k

\* ... st.experimental_rerun()
PcAfterAppend(res) == IF res = "ok" THEN "appended" ELSE "idle"

NoticeAfterAppend(res) ==
    IF res = "ok" THEN "success"
    ELSE IF res = "error" THEN "failed"
    ELSE "error"

\* the refresh button: st.session_state.reload_key += 1
RefreshKey(k) == k + 1

TotalCalls == append_calls[1] + append_calls[2]

\* ----------------------------------------------------------- widget inputs
\* whether each read fails: asked only of a run that reads
ReadChoices(s) ==
    IF secrets_ok /\ CredsInfo /\ ~Fresh(cache[CacheKey(s)])
    THEN BOOLEAN \X BOOLEAN
    ELSE {<<FALSE, FALSE>>}

\* the options of the Banks multiselect, when the run shows it
BankOptions(s, fh, fa) ==
    ScriptView(s, fh, fa, {}, SingleDate(1)).banks

\* the dates the date widgets accept, when the run shows them
DateOptions(s, fh, fa, sel_banks) ==
    LET w == ScriptView(s, fh, fa, sel_banks, SingleDate(1))
    IN  IF w.stage = "rendered"
        THEN {SingleDate(d) : d \in MinDate(w)..MaxDate(w)}
             \cup {DateRange(a, b) : a \in MinDate(w)..MaxDate(w),
                                     b \in MinDate(w)..MaxDate(w)}
             \cup {PartialRange(a) : a \in MinDate(w)..MaxDate(w)}
        ELSE {SingleDate(1)}

\* ----------------------------------------------------------------- actions
Tick ==
    /\ now < MaxTicks
    /\ now' = now + 1
    /\ UNCHANGED <<secrets_ok, io_mod, gcp_ok, hist_sheet, app_sheet, cache,
                   reload_key, pc, refreshed_at, view, append_calls, notice,
                   appended>>

\* "Refresh Data" was clicked: the counter moves and the script reruns
Refresh(s) ==
    /\ pc[s] = "idle"
    /\ view[s].stage \notin {"none", "no_secrets"}
    /\ reload_key[s] < MaxReload
    /\ reload_key' = [reload_key EXCEPT ![s] = RefreshKey(@)]
    /\ pc' = [pc EXCEPT ![s] = "refreshed"]
    /\ refreshed_at' = [refreshed_at EXCEPT ![s] = now]
    /\ UNCHANGED <<secrets_ok, io_mod, gcp_ok, hist_sheet, app_sheet, cache,
                   now, view, append_calls, notice, appended>>

\* a run of the script in which the form was not submitted
RunScript(s, fh, fa, sel_banks, dr) ==
    /\ view' = [view EXCEPT ![s] = ScriptView(s, fh, fa, sel_banks, dr)]
    /\ cache' = ScriptCache(s, fh, fa)
    /\ pc' = [pc EXCEPT ![s] = "idle"]
    /\ notice' = [notice EXCEPT ![s] = "none"]
    /\ UNCHANGED <<secrets_ok, io_mod, gcp_ok, hist_sheet, app_sheet, now,
                   reload_key, refreshed_at, append_calls, appended>>

\* the form is on the page and the session may still append
CanSubmit(s) ==
    /\ pc[s] = "idle"
    /\ view[s].stage = "rendered"
    /\ reload_key[s] < MaxReload
    /\ TotalCalls < MaxAppendCalls

\* "Save new row" was clicked: the script runs, and the form, if the run
\* reaches it, makes its one append call
SubmitRow(s, fh, fa, sel_banks, dr, form, res) ==
    /\ CanSubmit(s)
    /\ LET v == ScriptView(s, fh, fa, sel_banks, dr)
       IN  /\ view' = [view EXCEPT ![s] = v]
           /\ cache' = ScriptCache(s, fh, fa)
           /\ IF FormReached(v)
              THEN /\ append_calls' = [append_calls EXCEPT ![s] = @ + 1]
                   /\ app_sheet' = IF res = "ok"
                                   THEN AppendNewRow(app_sheet, NewRow(form))
                                   ELSE app_sheet
                   /\ appended' =
                        IF res = "ok"
                        THEN Append(appended,
                                    [idx |-> Len(app_sheet.rows),
                                     date |-> form.date,
                                     txn_type |-> form.txn_type,
                                     amount |-> form.amount])
                        ELSE appended
                   /\ reload_key' =
                        [reload_key EXCEPT ![s] = ReloadAfterAppend(@, res)]
                   /\ pc' = [pc EXCEPT ![s] = PcAfterAppend(res)]
                   /\ notice' = [notice EXCEPT ![s] = NoticeAfterAppend(res)]
              ELSE /\ notice' = [notice EXCEPT ![s] = "none"]
                   /\ UNCHANGED <<append_calls, app_sheet, appended,
                                  reload_key, pc>>
    /\ UNCHANGED <<secrets_ok, io_mod, gcp_ok, hist_sheet, now, refreshed_at>>

RECURSIVE SeqsUpTo(_, _)
SeqsUpTo(S, n) ==
    IF n = 0 THEN {<<>>}
    ELSE LET shorter == SeqsUpTo(S, n - 1)
         IN  shorter \cup {Append(q, x) : q \in shorter, x \in S}

AppendResults == {"ok", "error", "raise"}

\* ------------------------------------------------------------ deployments
\* a complete deployment, and the three with one thing missing
Deployments ==
    {<<TRUE, TRUE, TRUE>>, <<FALSE, TRUE, TRUE>>,
     <<TRUE, FALSE, TRUE>>, <<TRUE, TRUE, FALSE>>}

InitSession ==
    /\ cache = [k \in 0..MaxReload |-> NoEntry]
    /\ now = 0
    /\ reload_key = [s \in Sessions |-> 0]
    /\ pc = [s \in Sessions |-> "idle"]
    /\ refreshed_at = [s \in Sessions |-> -1]
    /\ view = [s \in Sessions |-> BlankView]
    /\ append_calls = [s \in Sessions |-> 0]
    /\ notice = [s \in Sessions |-> "none"]
    /\ appended = <<>>

InitComplete == secrets_ok = TRUE /\ io_mod = TRUE /\ gcp_ok = TRUE

SheetsOf(cols, rowset, n) ==
    {[cols |-> cols, rows |-> q] : q \in SeqsUpTo(rowset, n)}

\* a row of a range whose header is cols: no value under a missing column
StripCols(r, cols) ==
    Row(IF "timestamp" \in cols THEN r.timestamp ELSE NoTs,
        IF "date" \in cols THEN r.date ELSE NoTs,
        IF "Bank" \in cols THEN r.Bank ELSE NoBank,
        IF "Type" \in cols THEN r.Type ELSE NaN,
        IF "Amount" \in cols THEN r.Amount ELSE NaN,
        IF "is_deleted" \in cols THEN r.is_deleted ELSE NaN)

SysRows ==
    { Row(DateTimeText(1, 0), DateText(1), Txt("SBI"), Txt(CreditText),
          Txt(<<"5">>), Txt(FalseText)),
      Row(JunkTs, NoTs, NoBank, Txt(<<"D", "e", "b", "i", "t">>),
          Txt(<<"N", "/", "A">>), Txt(<<"T", "R", "U", "E">>)) }

\* the widgets at the ends of their ranges
EdgeBankChoices(s, fh, fa) == {BankOptions(s, fh, fa), {}}

EdgeDateChoices(s, fh, fa, sel_banks) ==
    LET w == ScriptView(s, fh, fa, sel_banks, SingleDate(1))
    IN  IF w.stage = "rendered"
        THEN {DateRange(MinDate(w), MaxDate(w)), SingleDate(MaxDate(w)),
              PartialRange(MinDate(w))}
        ELSE {SingleDate(1)}

\* ------------------------------------------- the sessions and their cache
\* Two browser sessions of one complete deployment, the cache they share,
\* the clock, refreshes and appends.  Every read succeeds and the widgets
\* keep their defaults: all banks, the whole date range.
DefaultDateChoices(s, sel_banks) ==
    LET w == ScriptView(s, FALSE, FALSE, sel_banks, SingleDate(1))
    IN  IF w.stage = "rendered"
        THEN {DateRange(MinDate(w), MaxDate(w))}
        ELSE {SingleDate(1)}

SharedForms ==
    [date : {1}, tod : {0}, bank : {"HDFC Bank"},
     txn_type : {DebitText}, amount : {MaxAmount}]

Init ==
    /\ InitComplete
    /\ hist_sheet \in SheetsOf(FullCols, SysRows, MaxHist)
    /\ app_sheet \in SheetsOf(FullCols, SysRows, 0)
    /\ InitSession

Next ==
    \/ Tick
    \/ \E s \in Sessions : Refresh(s)
    \/ \E s \in Sessions :
          \E dr \in DefaultDateChoices(s, BankOptions(s, FALSE, FALSE)) :
             RunScript(s, FALSE, FALSE, BankOptions(s, FALSE, FALSE), dr)
    \/ \E s \in Sessions : CanSubmit(s) /\
          \E dr \in DefaultDateChoices(s, BankOptions(s, FALSE, FALSE)) :
             \E form \in SharedForms, res \in AppendResults :
                SubmitRow(s, FALSE, FALSE, BankOptions(s, FALSE, FALSE), dr,
                          form, res)

Spec == Init /\ [][Next]_vars

\* ------------------------------------------------------------ one session
\* One session of any deployment: the transport up or down, the widgets at
\* the ends of their ranges, refreshes, appends that succeed, fail or raise.
SessionForms ==
    [date : Days, tod : {TicksPerDay - 1}, bank : {"HDFC Bank"},
     txn_type : {DebitText}, amount : {MaxAmount}]

\* both reads succeed, or the transport is down and both fail
UpOrDown(s) == ReadChoices(s) \cap {<<FALSE, FALSE>>, <<TRUE, TRUE>>}

InitOne ==
    /\ \E cfg \in Deployments :
          secrets_ok = cfg[1] /\ io_mod = cfg[2] /\ gcp_ok = cfg[3]
    /\ hist_sheet \in SheetsOf(FullCols, SysRows, MaxHist)
    /\ app_sheet \in SheetsOf(FullCols, SysRows, MaxApp)
    /\ InitSession

NextOne ==
    \/ Tick
    \/ Refresh(1)
    \/ \E rd \in UpOrDown(1) :
          \E sel_banks \in EdgeBankChoices(1, rd[1], rd[2]) :
             \E dr \in EdgeDateChoices(1, rd[1], rd[2], sel_banks) :
                RunScript(1, rd[1], rd[2], sel_banks, dr)
    \/ CanSubmit(1) /\ \E rd \in UpOrDown(1) :
          \E sel_banks \in EdgeBankChoices(1, rd[1], rd[2]) :
             \E dr \in EdgeDateChoices(1, rd[1], rd[2], sel_banks) :
                \E form \in SessionForms, res \in AppendResults :
                   SubmitRow(1, rd[1], rd[2], sel_banks, dr, form, res)

SpecSession == InitOne /\ [][NextOne]_vars

\* ------------------------------------------------- merge and delete filter
\* One session of a complete deployment reads ranges whose rows differ in
\* their is_deleted cell, from headers with and without that column; each
\* read may fail.
MaxLedgerRows == 2

DelCells ==
    { NaN, Txt(FalseText), Txt(<<"T", "R", "U", "E">>),
      Txt(<<"T", "r", "u", "e">>), Txt(<<"t">>), Txt(<<"1">>),
      Txt(<<"Y", "e", "s">>), Txt(<<" ", "t", "r", "u", "e">>) }

LedgerRows ==
    { Row(DateTimeText(1, 0), DateText(1), Txt("SBI"), Txt(DebitText),
          Txt(<<"5">>), c) : c \in DelCells }

LedgerSheets(n) ==
    SheetsOf(FullCols, LedgerRows, n)
    \cup SheetsOf(FullCols \ {"is_deleted"},
                  {StripCols(r, FullCols \ {"is_deleted"}) : r \in LedgerRows},
                  n)

InitLedger ==
    /\ InitComplete
    /\ hist_sheet \in LedgerSheets(MaxLedgerRows)
    /\ app_sheet \in LedgerSheets(MaxApp)
    /\ InitSession

NextLedger ==
    \E rd \in ReadChoices(1) :
       \E dr \in EdgeDateChoices(1, rd[1], rd[2],
                                 BankOptions(1, rd[1], rd[2])) :
          RunScript(1, rd[1], rd[2], BankOptions(1, rd[1], rd[2]), dr)

SpecLedger == InitLedger /\ [][NextLedger]_vars

\* ---------------------------------------------------- selection and totals
\* One session of a complete deployment reads a history range whose rows
\* differ in timestamp, bank, type and amount, from headers with and
\* without those columns; every bank selection and every date input the
\* widgets accept is tried.
MaxTotalsRows == 2

TsCells ==
    { DateTimeText(1, 0), DateTimeText(1, TicksPerDay - 1),
      DateText(MaxDay), JunkTs }

\* bank, type and amount of a row
Postings ==
    { <<Txt("SBI"), Txt(CreditText), Txt(<<"5">>)>>,
      <<Txt("SBI"), Txt(<<"D", "E", "B", "I", "T">>), Txt(<<"1", "2">>)>>,
      <<Txt("HDFC Bank"), Txt(<<"r", "e", "f", "u", "n", "d">>),
        Txt(<<"-", "3">>)>>,
      <<NoBank, Txt(DebitText), Txt(<<"N", "/", "A">>)>>,
      <<Txt("HDFC Bank"), NaN, Txt(<<"7">>)>> }

TotalsRows ==
    { Row(ts, DateText(1), p[1], p[2], p[3], NaN) :
         ts \in TsCells, p \in Postings }

Headers ==
    { FullCols, FullCols \ {"Amount"}, FullCols \ {"Type"},
      FullCols \ {"timestamp"}, FullCols \ {"Bank"} }

TotalsSheets(n) ==
    UNION { SheetsOf(h, {StripCols(r, h) : r \in TotalsRows}, n) :
               h \in Headers }

InitTotals ==
    /\ InitComplete
    /\ hist_sheet \in TotalsSheets(MaxTotalsRows)
    /\ app_sheet \in SheetsOf(FullCols, {}, 0)
    /\ InitSession

NextTotals ==
    \E sel_banks \in SUBSET BankOptions(1, FALSE, FALSE) :
       \E dr \in DateOptions(1, FALSE, FALSE, sel_banks) :
          RunScript(1, FALSE, FALSE, sel_banks, dr)

SpecTotals == InitTotals /\ [][NextTotals]_vars

\* ================================================================== claims
\* the views of a run that got as far as the delete filter
PastFilter == {"no_visible", "no_dates", "rendered", "error"}

\* the is_deleted cells that mark a row deleted: the cells of DelCells
\* whose text, lower-cased, is true, t, 1 or yes
MarkedCells ==
    { Txt(<<"T", "R", "U", "E">>), Txt(<<"T", "r", "u", "e">>), Txt(<<"t">>),
      Txt(<<"1">>), Txt(<<"Y", "e", "s">>) }

Marked(r) == r.is_deleted \in MarkedCells

TrueUpper == Txt(<<"T", "R", "U", "E">>)

\* C1: the ledger of a run is the history rows followed by the append rows
\* without the rows whose is_deleted text, lower-cased, is true/t/1/yes: its
\* size is history + append minus the marked rows, history survivors come
\* before append survivors and each source keeps its order, "TRUE" is
\* removed, and a row without an is_deleted value, or a ledger without the
\* column, loses nothing.
C1_MergeThenDeleteFilter ==
    \A s \in Sessions :
       LET v == view[s]
           H == v.history_df.rows
           A == v.append_df.rows
           all == H \o A
           L == v.df_raw.rows
       IN  v.stage \in PastFilter =>
              /\ L = SelectSeq(all, LAMBDA r : ~Marked(r))
              /\ Len(L) = Len(H) + Len(A)
                          - Cardinality({i \in DOMAIN all : Marked(all[i])})
              /\ \A i \in DOMAIN L : \A j \in DOMAIN L :
                    i < j =>
                       /\ L[i]._source_sheet = "append"
                             => L[j]._source_sheet = "append"
                       /\ L[i]._source_sheet = L[j]._source_sheet
                             => L[i]._sheet_row_idx < L[j]._sheet_row_idx
              /\ \A i \in DOMAIN L : L[i].is_deleted # TrueUpper
              /\ \A i \in DOMAIN all :
                    all[i].is_deleted.null
                       => \E j \in DOMAIN L : L[j] = all[i]
              /\ "is_deleted" \notin (v.history_df.cols \cup v.append_df.cols)
                    => L = all

\* a run that kept a history row and an append row, removed a "TRUE" row
\* and kept a row without an is_deleted value
C1_Witness ==
    LET v == view[1]
        all == v.history_df.rows \o v.append_df.rows
        L == v.df_raw.rows
    IN  /\ v.stage = "rendered"
        /\ \E i \in DOMAIN L : L[i]._source_sheet = "history"
        /\ \E i \in DOMAIN L : L[i]._source_sheet = "append"
        /\ \E i \in DOMAIN all : all[i].is_deleted = TrueUpper
        /\ \E i \in DOMAIN L : L[i].is_deleted.null

\* a read that failed left the empty frame; a read that succeeded left at
\* least the _source_sheet column
ReadFailed(df) == df = EmptyFrame

\* the frame a successful read of an empty range leaves
EmptyRead(sheet, source_name) ==
    ReadSheetWithIndex([cols |-> sheet.cols, rows |-> <<>>], source_name, FALSE)

\* the run of v, had its failed reads found empty ranges instead
AsIfEmpty(v) ==
    PipelineFromDates(
        PipelineToDates(
            [BlankView EXCEPT
                !.hit = v.hit, !.stored_at = v.stored_at,
                !.history_df = IF ReadFailed(v.history_df)
                               THEN EmptyRead(hist_sheet, "history")
                               ELSE v.history_df,
                !.append_df = IF ReadFailed(v.append_df)
                              THEN EmptyRead(app_sheet, "append")
                              ELSE v.append_df],
            v.sel_banks),
        v.date_input)

\* C7: when exactly one of the two reads fails the run goes on with the
\* rows of the other source, and ends where and as it would had the failed
\* range been empty; it ends in the no-data state only when the other
\* source has no rows either.
C7_OneSourceFails ==
    \A s \in Sessions :
       LET v == view[s]
           other == IF ReadFailed(v.history_df) THEN v.append_df
                    ELSE v.history_df
           w == AsIfEmpty(v)
       IN  (/\ v.stage \in PastFilter \cup {"no_data"}
            /\ ReadFailed(v.history_df) # ReadFailed(v.append_df)) =>
              /\ (v.stage = "no_data") <=> (other.rows = <<>>)
              /\ v.stage # "no_data" =>
                    v.df_raw.rows = SelectSeq(other.rows, LAMBDA r : ~Marked(r))
              /\ v.stage = w.stage
              /\ v.df_raw.rows = w.df_raw.rows
              /\ v.filtered_df.rows = w.filtered_df.rows
              /\ v.merged = w.merged
              /\ v.sel_df.rows = w.sel_df.rows
              /\ v.summary = w.summary

\* the history read failed and the append rows were rendered
C7_Witness ==
    /\ ReadFailed(view[1].history_df)
    /\ ~ReadFailed(view[1].append_df)
    /\ hist_sheet.rows # <<>>
    /\ view[1].stage = "rendered"
    /\ view[1].sel_df.rows # <<>>

\* the views of a run that got as far as the bank filter
PastBanks == {"no_dates", "rendered", "error"}

Permute(rows, p) == [i \in DOMAIN rows |-> rows[p[i]]]

\* C3: the per-day totals (total_spent the debit amounts, total_credit the
\* credit amounts of each calendar day) are the same for every permutation
\* of the rows they are computed from: the same days, the same totals.
C3_AggregatePermutationInvariant ==
    \A s \in Sessions :
       LET v == view[s]
           df == v.filtered_df
       IN  v.stage \in PastBanks =>
              \A p \in Permutations(DOMAIN df.rows) :
                 ComputeDailyTotals([df EXCEPT !.rows = Permute(df.rows, p)])
                    = v.merged

\* two rows of one day, a credit and a debit, both in the day's totals
C3_Witness ==
    /\ view[1].stage \in PastBanks
    /\ Len(view[1].filtered_df.rows) >= 2
    /\ view[1].filtered_df.rows[1] # view[1].filtered_df.rows[2]
    /\ 1 \in DOMAIN view[1].merged
    /\ view[1].merged[1].Total_Spent > 0
    /\ view[1].merged[1].Total_Credit > 0

\* the number an Amount cell of Postings stands for; 0 when it is no number
AmountOf(c) ==
    IF c = Txt(<<"5">>) THEN 5
    ELSE IF c = Txt(<<"1", "2">>) THEN 12
    ELSE IF c = Txt(<<"-", "3">>) THEN 0 - 3
    ELSE IF c = Txt(<<"7">>) THEN 7
    ELSE 0

Unparsable == Txt(<<"N", "/", "A">>)

\* the Type cells of Postings that are credit or debit, whatever their case
IsCredit(r) == r.Type = Txt(CreditText)
IsDebit(r) == r.Type \in {Txt(DebitText), Txt(<<"D", "E", "B", "I", "T">>)}

RECURSIVE SumWhere(_, _)
SumWhere(rows, keep) ==
    IF rows = <<>> THEN 0
    ELSE (IF keep[Head(rows)] THEN AmountOf(Head(rows).Amount) ELSE 0)
         + SumWhere(Tail(rows), keep)

RowsOf(rows) == {rows[i] : i \in DOMAIN rows}
AllRows(rows) == [r \in RowsOf(rows) |-> TRUE]
CreditOrDebit(rows) == [r \in RowsOf(rows) |-> IsCredit(r) \/ IsDebit(r)]

\* the calendar day a row's timestamp text names; 0 when it names none
DayOfText(c) == IF c.kind \in {"datetime", "date"} THEN c.day ELSE 0

DayOfRow(df, r) ==
    IF "timestamp" \in df.cols THEN DayOfText(r.timestamp)
    ELSE IF "date" \in df.cols THEN DayOfText(r.date)
    ELSE 0

\* C6 as stated: credit_sum + debit_sum is never greater than the sum of
\* the amounts of all selected rows, equals it when every selected row is a
\* credit or a debit, and a row with an unparsable amount stays selected and
\* counts as 0.
C6_SumsNeverExceedTotal ==
    \A s \in Sessions :
       LET v == view[s]
           rows == v.sel_df.rows
           both == v.summary.credit_sum + v.summary.debit_sum
       IN  v.stage = "rendered" =>
              /\ both <= SumWhere(rows, AllRows(rows))
              /\ (\A r \in RowsOf(rows) : IsCredit(r) \/ IsDebit(r))
                    => both = SumWhere(rows, AllRows(rows))
              /\ \A r \in RowsOf(v.filtered_df.rows) :
                    (/\ r.Amount = Unparsable
                     /\ DayOfRow(v.filtered_df, r) \in v.start_sel..v.end_sel)
                       => r \in RowsOf(rows)

\* C6 as amended: credit_sum + debit_sum is the sum of the amounts of the
\* selected rows that are a credit or a debit, whatever their case; so it
\* equals the sum over all selected rows when every one of them is a credit
\* or a debit, and is not greater than it when no selected row of another
\* type has a negative amount; a row with an unparsable amount stays
\* selected and counts as 0.
C6_SumsAreCreditPlusDebit ==
    \A s \in Sessions :
       LET v == view[s]
           rows == v.sel_df.rows
           both == v.summary.credit_sum + v.summary.debit_sum
           typed == "Type" \in v.sel_df.cols /\ "Amount" \in v.sel_df.cols
       IN  v.stage = "rendered" =>
              /\ both = IF typed THEN SumWhere(rows, CreditOrDebit(rows))
                        ELSE 0
              /\ v.summary.credit_sum =
                    IF typed
                    THEN SumWhere(rows, [r \in RowsOf(rows) |-> IsCredit(r)])
                    ELSE 0
              /\ (\A r \in RowsOf(rows) : IsCredit(r) \/ IsDebit(r))
                    => both = SumWhere(rows, AllRows(rows))
              /\ (\A r \in RowsOf(rows) :
                     IsCredit(r) \/ IsDebit(r) \/ AmountOf(r.Amount) >= 0)
                    => both <= SumWhere(rows, AllRows(rows))
              /\ \A r \in RowsOf(v.filtered_df.rows) :
                    (/\ r.Amount = Unparsable
                     /\ DayOfRow(v.filtered_df, r) \in v.start_sel..v.end_sel)
                       => r \in RowsOf(rows)

\* a selection with a credit and a row of another type and negative amount
C6_Witness ==
    /\ view[1].stage = "rendered"
    /\ \E r \in RowsOf(view[1].sel_df.rows) : IsCredit(r) /\ AmountOf(r.Amount) > 0
    /\ \E r \in RowsOf(view[1].sel_df.rows) :
          ~IsCredit(r) /\ ~IsDebit(r) /\ AmountOf(r.Amount) < 0

\* C8: with no bank selected on a ledger that has rows, the run reaches the
\* Summary, selects no row and shows a Summary of zeros.
C8_NoBankSelected ==
    \A s \in Sessions :
       LET v == view[s]
       IN  (/\ v.stage \in PastBanks
            /\ v.df_raw.rows # <<>>
            /\ v.sel_banks = {}) =>
              /\ v.stage = "rendered"
              /\ v.sel_df.rows = <<>>
              /\ v.summary = ZeroSummary

\* C9: a (start, end) pair never makes the run fail; with start later than
\* end no row is selected and the Summary is all zeros; with start <= end a
\* row is selected exactly when the calendar day of its timestamp lies in
\* [start, end], whatever its time of day; a row without a parsable
\* timestamp is never selected.
C9_DateRangeSelection ==
    \A s \in Sessions :
       LET v == view[s]
           df == v.filtered_df
       IN  /\ v.stage = "error" => v.date_input.mode = "partial"
           /\ v.stage = "rendered" =>
                 /\ v.start_sel > v.end_sel =>
                       v.sel_df.rows = <<>> /\ v.summary = ZeroSummary
                 /\ v.sel_df.rows =
                       SelectSeq(df.rows,
                                 LAMBDA r : /\ DayOfRow(df, r) # 0
                                            /\ v.start_sel <= DayOfRow(df, r)
                                            /\ DayOfRow(df, r) <= v.end_sel)
                 /\ \A r \in RowsOf(v.sel_df.rows) : DayOfRow(df, r) # 0

\* a rendered run whose start date is later than its end date
C9_Witness ==
    /\ view[1].stage = "rendered"
    /\ view[1].start_sel > view[1].end_sel
    /\ view[1].filtered_df.rows # <<>>

\* the rows of a ledger other than the appended row a
WithoutAppended(rows, a) ==
    SelectSeq(rows, LAMBDA r : ~(/\ r._source_sheet = "append"
                                 /\ r._sheet_row_idx = a.idx))

\* the Summary of calendar day d over rows, all banks selected
DayTotals(df, rows, d) == Totals(SelectRows([df EXCEPT !.rows = rows], d, d))

\* a history row with the date, type and amount of the appended row a
HistoryTwin(a) ==
    Row(DateText(a.date), DateText(a.date), Txt("SBI"), Txt(a.txn_type),
        Txt(FormatNumber(a.amount)), NaN)
    @@ [_sheet_row_idx |-> 0, _source_sheet |-> "history"]

\* what a row of type and amount adds to the debit and the credit of its day
Raised(summary, a, d) ==
    [debit_sum |-> summary.debit_sum
                   + (IF d = a.date /\ a.txn_type = DebitText
                      THEN a.amount ELSE 0),
     credit_sum |-> summary.credit_sum
                    + (IF d = a.date /\ a.txn_type = CreditText
                       THEN a.amount ELSE 0)]

DebitAndCredit(summary) ==
    [debit_sum |-> summary.debit_sum, credit_sum |-> summary.credit_sum]

\* C2: a debit of amount A on day D that the transport accepted is, in
\* every run that read the append range after it, kept by the delete filter
\* with is_deleted "false", on calendar day D with a time of day, and it
\* raises the debit total of day D by exactly A and no other total of any
\* day - as a history row of the same date, type and amount does.
C2_AppendedRowCountsOnItsDay ==
    \A s \in Sessions : \A i \in DOMAIN appended :
       LET a == appended[i]
           v == view[s]
           r == v.append_df.rows[a.idx + 1]
           conv == WithBankColumn(ConvertColumnsAndDerives(v.df_raw))
           rest == WithoutAppended(conv.rows, a)
           daily == ComputeDailyTotals(conv)
           daily_rest == ComputeDailyTotals([conv EXCEPT !.rows = rest])
       IN  (v.stage \in PastFilter /\ Len(v.append_df.rows) > a.idx) =>
              /\ r.is_deleted = Txt(FalseText)
              /\ r \in RowsOf(v.df_raw.rows)
              /\ r.timestamp.kind = "datetime"
              /\ DayOfText(r.timestamp) = a.date
              /\ a.txn_type = DebitText
              /\ \A d \in Days :
                    /\ DebitAndCredit(DayTotals(conv, conv.rows, d))
                          = Raised(DayTotals(conv, rest, d), a, d)
                    /\ DebitAndCredit(DayTotals(conv, conv.rows, d))
                          = DebitAndCredit(
                               DayTotals(conv, <<HistoryTwin(a)>> \o rest, d))
              /\ a.date \in DOMAIN daily
              /\ daily[a.date].Total_Spent =
                    a.amount + (IF a.date \in DOMAIN daily_rest
                                THEN daily_rest[a.date].Total_Spent ELSE 0)
              /\ \A d \in DOMAIN daily_rest :
                    /\ daily[d].Total_Credit = daily_rest[d].Total_Credit
                    /\ d # a.date => daily[d] = daily_rest[d]

\* the row was appended and the next run read it from the transport
C2_Witness ==
    /\ appended # <<>>
    /\ view[1].stage = "rendered"
    /\ ~view[1].hit
    /\ Len(view[1].append_df.rows) > appended[1].idx
    /\ appended[1].amount > 0

\* C4: the run that follows a session's manual refresh never returns a
\* cache entry that was stored before that refresh.
C4_RefreshBypassesOlderEntries ==
    [][\A s \in Sessions :
          (pc[s] = "refreshed" /\ pc'[s] = "idle") =>
             ~(view'[s].hit /\ view'[s].stored_at < refreshed_at[s])]_vars

\* C5: a submission makes one append call; when the call does not return
\* ok (another status, or an exception) the failure is reported and nothing
\* else changes: the reload counter, the ranges, the session's position (no
\* rerun) and the ledger and totals of the run; the form moves the reload
\* counter, by one, only when the status is ok.
C5_FailedAppendChangesNothing ==
    [][\A s \in Sessions :
          /\ append_calls'[s] \in {append_calls[s], append_calls[s] + 1}
          /\ (append_calls'[s] # append_calls[s] /\ notice'[s] # "success") =>
                /\ notice'[s] \in {"failed", "error"}
                /\ reload_key'[s] = reload_key[s]
                /\ pc'[s] = "idle"
                /\ app_sheet' = app_sheet
                /\ hist_sheet' = hist_sheet
                /\ appended' = appended
                /\ \E rd \in ReadChoices(s) :
                      \E sel_banks \in EdgeBankChoices(s, rd[1], rd[2]) :
                         \E dr \in EdgeDateChoices(s, rd[1], rd[2], sel_banks) :
                            view'[s] = ScriptView(s, rd[1], rd[2], sel_banks, dr)
          /\ (append_calls'[s] # append_calls[s] /\ notice'[s] = "success") =>
                reload_key'[s] = reload_key[s] + 1
          /\ (reload_key'[s] # reload_key[s] /\ pc'[s] # "refreshed") =>
                /\ append_calls'[s] = append_calls[s] + 1
                /\ notice'[s] = "success"
                /\ reload_key'[s] = reload_key[s] + 1]_vars

\* an append failed: it was reported, the counter did not move, no rerun
C5_Witness ==
    /\ notice[1] \in {"failed", "error"}
    /\ append_calls[1] = 1
    /\ reload_key[1] = 0
    /\ pc[1] = "idle"

\* C10: a run issues an append only when it passed every stop before the
\* form: identifiers and credentials present, a source with rows, a row left
\* by the delete filter, a bank-selected row with a parsable timestamp; and
\* while both ranges are empty no append has been issued.
C10_AppendOnlyPastEveryStop ==
    /\ [][\A s \in Sessions :
             append_calls'[s] # append_calls[s] =>
                /\ secrets_ok /\ CredsInfo
                /\ view'[s].stage = "rendered"
                /\ view'[s].history_df.rows # <<>>
                      \/ view'[s].append_df.rows # <<>>
                /\ view'[s].df_raw.rows # <<>>
                /\ \E r \in RowsOf(view'[s].filtered_df.rows) :
                      DayOfRow(view'[s].filtered_df, r) # 0]_vars
    /\ []((hist_sheet.rows = <<>> /\ app_sheet.rows = <<>>) => TotalCalls = 0)

\* an append was issued by a run that rendered
C10_Witness ==
    /\ TotalCalls > 0
    /\ append_calls[1] > 0
    /\ view[1].stage = "rendered"

=============================================================================
